---- MODULE Spec2Model ----
(***************************************************************************)
(* libertas core: CredentialsManager over a StorageBackend (InMemoryStorage *)
(* or FileStorage) and the AESEncryption strategy, with CredentialsBuilder. *)
(*                                                                          *)
(* JavaScript values are records [t |-> <typeof-like tag>, v |-> payload].  *)
(* JavaScript strings are sequences of one-character strings, so that the   *)
(* code's regular expressions, lengths and hex decoding can be computed.    *)
(***************************************************************************)
EXTENDS Integers, Sequences, FiniteSets, TLC

(* ------------------------------------------------------------------ *)
(* Bounds of the model                                                 *)
(* ------------------------------------------------------------------ *)
MaxOps == 3
MaxIV == 1
MaxTime == 1
MaxCalls == 3
MaxCipherOps == 3
MaxCipherIV == 2

(* ------------------------------------------------------------------ *)
(* Program constants                                                   *)
(* ------------------------------------------------------------------ *)
keyLength == 32
ivLength == 16
authTagLength == 16
MasterKeyHexLength == 64
MaxKeyNameLength == 255
SaltLength == 32
DefaultIterations == 100000
DefaultKeyLength == 32

(* ------------------------------------------------------------------ *)
(* Strings                                                             *)
(* ------------------------------------------------------------------ *)
Rep(c, n) == [i \in 1..n |-> c]

LowerHexChars == {"a", "b", "c", "d", "e", "f"}
UpperHexChars == {"A", "B", "C", "D", "E", "F"}
DigitChars == {"0", "1", "2", "3", "4", "5", "6", "7", "8", "9"}
LowerChars == LowerHexChars \cup {"g", "i", "l", "n", "p", "v", "x"}

JsString(s) == [t |-> "string", v |-> s]
JsNumber(n) == [t |-> "number", v |-> n]
JsBoolean(b) == [t |-> "boolean", v |-> b]
JsNull == [t |-> "null", v |-> 0]
JsUndefined == [t |-> "undefined", v |-> 0]
JsNaN == [t |-> "NaN", v |-> 0]
JsObject(o) == [t |-> "object", v |-> o]
JsArray(a) == [t |-> "array", v |-> a]

(* typeof x *)
TypeOf(x) ==
  CASE x.t = "null" -> "object"
    [] x.t = "array" -> "object"
    [] x.t = "NaN" -> "number"
    [] x.t = "hex" -> "string"
    [] OTHER -> x.t

(* !x *)
Falsy(x) ==
  \/ x.t \in {"null", "undefined", "NaN"}
  \/ x.t = "string" /\ Len(x.v) = 0
  \/ x.t = "hex" /\ x.v.len = 0
  \/ x.t = "number" /\ x.v = 0
  \/ x.t = "boolean" /\ x.v = FALSE

(* ------------------------------------------------------------------ *)
(* Results: st is "ok" or the class of the error thrown                *)
(* ------------------------------------------------------------------ *)
Ok(v) == [st |-> "ok", v |-> v]
Throw(cls) == [st |-> cls, v |-> JsUndefined]

(* error instanceof CredentialsError *)
CredentialsErrorClasses ==
  {"CredentialsError", "ValidationError", "EncryptionError", "StorageError", "KeyDerivationError"}

(* ------------------------------------------------------------------ *)
(* Buffer.from(str, 'hex'): pairs of hex digits of either case, cut at *)
(* the first pair that is not hex; an odd trailing character is lost.  *)
(* ------------------------------------------------------------------ *)
HexDigitChars == LowerHexChars \cup UpperHexChars \cup DigitChars

HexValues ==
  [c \in HexDigitChars |->
     CASE c = "0" -> 0 [] c = "1" -> 1 [] c = "2" -> 2 [] c = "3" -> 3 [] c = "4" -> 4
       [] c = "5" -> 5 [] c = "6" -> 6 [] c = "7" -> 7 [] c = "8" -> 8 [] c = "9" -> 9
       [] c \in {"a", "A"} -> 10 [] c \in {"b", "B"} -> 11 [] c \in {"c", "C"} -> 12
       [] c \in {"d", "D"} -> 13 [] c \in {"e", "E"} -> 14 [] c \in {"f", "F"} -> 15]

IsHexDigit(c) == c \in HexDigitChars

HexPairs(s, m) == [i \in 1..m |-> 16 * HexValues[s[2 * i - 1]] + HexValues[s[2 * i]]]

BufferFromHex(s) ==
  LET bad == {i \in 1..(Len(s) \div 2) : ~(IsHexDigit(s[2 * i - 1]) /\ IsHexDigit(s[2 * i]))}
  IN IF bad = {}
       THEN HexPairs(s, Len(s) \div 2)
       ELSE HexPairs(s, (CHOOSE i \in bad : \A j \in bad : i <= j) - 1)

(* ------------------------------------------------------------------ *)
(* JSON.stringify / JSON.parse. A JSON text is modelled by the value   *)
(* it denotes: stringify drops object members whose value is undefined,*)
(* writes NaN and undefined array elements as null, and recurses.      *)
(* ------------------------------------------------------------------ *)
RECURSIVE JsonValueOf(_)
JsonValueOf(x) ==
  CASE x.t = "object" ->
         JsObject([f \in {g \in DOMAIN x.v : x.v[g].t # "undefined"} |-> JsonValueOf(x.v[f])])
    [] x.t = "array" ->
         JsArray([i \in 1..Len(x.v) |->
                    IF x.v[i].t = "undefined" THEN JsNull ELSE JsonValueOf(x.v[i])])
    [] x.t = "NaN" -> JsNull
    [] OTHER -> x

JSONStringify(x) == [json |-> JsonValueOf(x)]

JSONParse(text) == text.json

(* { ...existing, ...updates } *)
(* a merge that descends into members that are objects on both sides *)
SpreadMergeRecursive(existing, updates) ==
  JsObject([f \in DOMAIN existing.v \cup DOMAIN updates.v |->
              IF f \notin DOMAIN updates.v THEN existing.v[f]
              ELSE IF f \in DOMAIN existing.v /\ existing.v[f].t = "object"
                      /\ updates.v[f].t = "object"
                     THEN JsObject([g \in DOMAIN existing.v[f].v \cup DOMAIN updates.v[f].v |->
                                      IF g \in DOMAIN updates.v[f].v
                                        THEN updates.v[f].v[g] ELSE existing.v[f].v[g]])
                     ELSE updates.v[f]])

SpreadMerge(existing, updates) ==
  JsObject([f \in DOMAIN existing.v \cup DOMAIN updates.v |->
              IF f \in DOMAIN updates.v THEN updates.v[f] ELSE existing.v[f]])

(* ------------------------------------------------------------------ *)
(* AESEncryption (aes-256-gcm), symbolically: the ciphertext of data   *)
(* under key bytes kb and iv is the term GcmCiphertext(kb, iv, data),  *)
(* its tag the term GcmTag(kb, iv, ct). A blob is iv || tag || ct.     *)
(* ------------------------------------------------------------------ *)
GcmCiphertext(kb, iv, data) == [k |-> kb, iv |-> iv, p |-> data]
GcmTag(kb, iv, ct) == [k |-> kb, iv |-> iv, c |-> ct]

(* the text '' *)
EmptyText == [json |-> [t |-> "SyntaxError", v |-> 0]]

(* the length of a text in bytes; the text of an object is at least its two braces *)
DataLength(data) ==
  IF data.json.t = "SyntaxError" THEN data.json.v ELSE 2 + Cardinality(DOMAIN data.json.v)

(* result.toString('hex') of iv || tag || ct: a string holding a blob *)
HexOf(blob) ==
  [t |-> "hex",
   v |-> [len |-> 2 * (ivLength + authTagLength + DataLength(blob.ct.p)),
          iv |-> blob.iv, tag |-> blob.tag, ct |-> blob.ct]]

(* an encrypt that does not look at the length of the key bytes *)
EncryptWithoutKeyCheck(data, keyBuffer, iv) ==
  Ok(HexOf([iv |-> iv,
            tag |-> GcmTag(keyBuffer, iv, GcmCiphertext(keyBuffer, iv, data)),
            ct |-> GcmCiphertext(keyBuffer, iv, data)]))

(* an encrypt that uses one fixed IV instead of the bytes drawn *)
EncryptWithFixedIV(data, keyBuffer, iv) ==
  IF Len(keyBuffer) # keyLength
    THEN Throw("EncryptionError")
    ELSE Ok(HexOf([iv |-> 1,
                   tag |-> GcmTag(keyBuffer, 1, GcmCiphertext(keyBuffer, 1, data)),
                   ct |-> GcmCiphertext(keyBuffer, 1, data)]))

EncryptWith(data, keyBuffer, iv) ==
  IF Len(keyBuffer) # keyLength
    THEN Throw("EncryptionError")
    ELSE Ok(HexOf([iv |-> iv,
                   tag |-> GcmTag(keyBuffer, iv, GcmCiphertext(keyBuffer, iv, data)),
                   ct |-> GcmCiphertext(keyBuffer, iv, data)]))

AESEncrypt(data, key, iv) == EncryptWith(data, BufferFromHex(key), iv)

DecryptWith(buffer, keyBuffer) ==
  IF Len(keyBuffer) # keyLength
    THEN Throw("EncryptionError")
    ELSE IF buffer.tag # GcmTag(keyBuffer, buffer.iv, buffer.ct)
           THEN Throw("EncryptionError")
           ELSE Ok(buffer.ct.p)

AESDecrypt(encryptedData, key) == DecryptWith(encryptedData.v, BufferFromHex(key))

(* The same blob byte by byte. Byte number `at` of the term `of` (an IV, a tag  *)
(* or a ciphertext) is [kind, of, at, xor], xor = 0 for the byte as encrypt     *)
(* produced it and the difference to it otherwise.                              *)
BytesOf(kind, of, n) == [i \in 1..n |-> [kind |-> kind, of |-> of, at |-> i - 1, xor |-> 0]]

(* Buffer.from(encryptedData, 'hex') of a string that encrypt returned *)
BufferOf(encryptedData) ==
  BytesOf("iv", encryptedData.v.iv, ivLength)
    \o BytesOf("tag", encryptedData.v.tag, authTagLength)
    \o BytesOf("ct", encryptedData.v.ct,
               (encryptedData.v.len \div 2) - ivLength - authTagLength)

(* buffer.subarray(start, end) *)
subarray(buffer, start, end) ==
  IF start >= end THEN <<>> ELSE SubSeq(buffer, start + 1, IF end > Len(buffer) THEN Len(buffer) ELSE end)

(* the bytes are, in order and unchanged, the n bytes of one term of that kind *)
Whole(bytes, kind, n) ==
  /\ Len(bytes) = n
  /\ n > 0
  /\ \A i \in 1..Len(bytes) :
       /\ bytes[i].kind = kind
       /\ bytes[i].at = i - 1
       /\ bytes[i].xor = 0
  /\ \A i \in 1..Len(bytes) : bytes[i].of = bytes[1].of

(* the tag lengths decipher.setAuthTag accepts for aes-256-gcm when              *)
(* createDecipheriv was given no authTagLength                                  *)
GcmTagLengths == {4, 8, 12, 13, 14, 15, 16}

(* the ciphertext these bytes are: no bytes are the ciphertext of the text ''   *)
(* under every key and IV                                                       *)
CiphertextOf(kb, iv, encrypted) ==
  IF encrypted = <<>> THEN GcmCiphertext(kb, iv[1].of, EmptyText) ELSE encrypted[1].of

(* createDecipheriv, setAuthTag and decipher.final() all pass: the IV has bytes, *)
(* the tag has an accepted length, and its bytes are the first bytes of the tag *)
(* of these key bytes, IV and ciphertext                                        *)
GcmVerified(kb, iv, authTag, encrypted) ==
  /\ Whole(iv, "iv", ivLength)
  /\ Len(authTag) \in GcmTagLengths
  /\ Whole(authTag, "tag", Len(authTag))
  /\ \/ encrypted = <<>>
     \/ /\ Whole(encrypted, "ct", Len(encrypted))
        /\ Len(encrypted) = DataLength(encrypted[1].of.p)
  /\ authTag[1].of = GcmTag(kb, iv[1].of, CiphertextOf(kb, iv, encrypted))

(* decipher.update(): the counter-mode decryption, which gives the data back    *)
(* for whole ciphertext under its key bytes and IV and other text otherwise     *)
GcmPlaintext(kb, iv, encrypted) ==
  IF encrypted = <<>> THEN EmptyText
  ELSE
  IF /\ Whole(iv, "iv", ivLength)
     /\ Whole(encrypted, "ct", Len(encrypted))
     /\ encrypted[1].of.k = kb
     /\ encrypted[1].of.iv = iv[1].of
    THEN encrypted[1].of.p
    ELSE [json |-> [t |-> "SyntaxError", v |-> Len(encrypted)]]

(* a decrypt that does not call decipher.setAuthTag and decipher.final *)
DecryptBufferUnverified(buffer, keyBuffer) ==
  IF Len(keyBuffer) # keyLength
    THEN Throw("EncryptionError")
    ELSE Ok(GcmPlaintext(keyBuffer, subarray(buffer, 0, ivLength),
                         subarray(buffer, ivLength + authTagLength, Len(buffer))))

DecryptBuffer(buffer, keyBuffer) ==
  IF Len(keyBuffer) # keyLength
    THEN Throw("EncryptionError")
    ELSE IF ~GcmVerified(keyBuffer,
                         subarray(buffer, 0, ivLength),
                         subarray(buffer, ivLength, ivLength + authTagLength),
                         subarray(buffer, ivLength + authTagLength, Len(buffer)))
           THEN Throw("EncryptionError")
           ELSE Ok(GcmPlaintext(keyBuffer, subarray(buffer, 0, ivLength),
                                subarray(buffer, ivLength + authTagLength, Len(buffer))))

(* the buffer with the byte at offset `at` changed by `by` *)
ChangeByte(buffer, at, by) == [buffer EXCEPT ![at + 1].xor = by]

(* ------------------------------------------------------------------ *)
(* CredentialsManager validation                                       *)
(* ------------------------------------------------------------------ *)
validateKey(key) ==
  IF Falsy(key) \/ TypeOf(key) # "string"
    THEN "ValidationError"
    ELSE IF Len(key.v) > MaxKeyNameLength THEN "ValidationError" ELSE "ok"

validateCredentials(credentials) ==
  IF Falsy(credentials) \/ TypeOf(credentials) # "object"
    THEN "ValidationError"
    ELSE IF credentials.t = "array" THEN "ValidationError" ELSE "ok"

(* [a-f0-9] *)
MasterKeyChars == LowerHexChars \cup DigitChars

validateMasterKey(key) ==
  IF Falsy(key) \/ TypeOf(key) # "string"
    THEN "ValidationError"
    ELSE IF ~(\A i \in 1..Len(key.v) : key.v[i] \in MasterKeyChars)
           THEN "ValidationError"
           ELSE IF Len(key.v) # MasterKeyHexLength THEN "ValidationError" ELSE "ok"

(* a scoped key built with another separator *)
generateScopedKeyColon(name, scope) ==
  IF Falsy(scope) THEN name ELSE JsString(name.v \o <<":">> \o scope.v)

generateScopedKey(name, scope) ==
  IF Falsy(scope) THEN name ELSE JsString(name.v \o <<".">> \o scope.v)

(* ------------------------------------------------------------------ *)
(* Storage backends. A backend is [kind, dir, store]: for "memory"     *)
(* store is the Map (key -> blob); for "file" store is the base        *)
(* directory (file name -> parsed content) and dir tells whether the   *)
(* directory has been created.                                         *)
(* ------------------------------------------------------------------ *)
Put(f, k, v) == [x \in DOMAIN f \cup {k} |-> IF x = k THEN v ELSE f[x]]
Remove(f, k) == [x \in DOMAIN f \ {k} |-> f[x]]
EmptyMap == [x \in {} |-> 0]

NewInMemoryStorage == [kind |-> "memory", dir |-> FALSE, store |-> EmptyMap]
NewFileStorage == [kind |-> "file", dir |-> FALSE, store |-> EmptyMap]

SafeFileChars == LowerChars \cup UpperHexChars \cup DigitChars \cup {".", "_", "-"}

(* a sanitizer that lets the path separator through *)
sanitizeKeyKeepingSlash(key) ==
  LET replaced == [i \in 1..Len(key) |->
                     IF key[i] \in SafeFileChars \cup {"/"} THEN key[i] ELSE "_"]
      lead == CHOOSE j \in 0..Len(replaced) :
                /\ \A i \in 1..j : replaced[i] = "."
                /\ j = Len(replaced) \/ replaced[j + 1] # "."
      noLead == SubSeq(replaced, lead + 1, Len(replaced))
      trail == CHOOSE j \in 0..Len(noLead) :
                 /\ \A i \in 1..j : noLead[Len(noLead) + 1 - i] = "."
                 /\ j = Len(noLead) \/ noLead[Len(noLead) - j] # "."
  IN SubSeq(noLead, 1, Len(noLead) - trail)

sanitizeKey(key) ==
  LET replaced == [i \in 1..Len(key) |-> IF key[i] \in SafeFileChars THEN key[i] ELSE "_"]
      lead == CHOOSE j \in 0..Len(replaced) :
                /\ \A i \in 1..j : replaced[i] = "."
                /\ j = Len(replaced) \/ replaced[j + 1] # "."
      noLead == SubSeq(replaced, lead + 1, Len(replaced))
      trail == CHOOSE j \in 0..Len(noLead) :
                 /\ \A i \in 1..j : noLead[Len(noLead) + 1 - i] = "."
                 /\ j = Len(noLead) \/ noLead[Len(noLead) - j] # "."
  IN SubSeq(noLead, 1, Len(noLead) - trail)

(* path.join(basePath, sanitized + '.json'), as the file's name in basePath *)
(* the resolved base directory of the FileStorage, one entry per segment *)
basePath == << <<"t">>, <<"s">> >>

(* path.join / path.resolve: "." and empty segments vanish, ".." climbs *)
PushSegment(stack, seg) ==
  IF seg = <<>> \/ seg = <<".">> THEN stack
  ELSE IF seg = <<".", ".">>
         THEN (IF stack = <<>> THEN stack ELSE SubSeq(stack, 1, Len(stack) - 1))
         ELSE Append(stack, seg)

RECURSIVE Normalize(_, _, _)
Normalize(stack, seg, rest) ==
  IF rest = <<>> THEN PushSegment(stack, seg)
  ELSE IF Head(rest) = "/"
         THEN Normalize(PushSegment(stack, seg), <<>>, Tail(rest))
         ELSE Normalize(stack, Append(seg, Head(rest)), Tail(rest))

pathJoin(base, file) == Normalize(base, <<>>, file)

(* the path as the string path.resolve returns *)
RECURSIVE PathString(_)
PathString(path) ==
  IF path = <<>> THEN <<>> ELSE <<"/">> \o Head(path) \o PathString(Tail(path))

StartsWith(str, prefix) ==
  Len(prefix) <= Len(str) /\ SubSeq(str, 1, Len(prefix)) = prefix

getFilePath(key) == pathJoin(basePath, sanitizeKey(key) \o <<".json">>)

verifyPath(filePath) ==
  IF StartsWith(PathString(filePath), PathString(basePath)) THEN "ok" ELSE "StorageError"

(* new Date().toISOString() of the clock reading now *)
ToISOString(now) == JsString(<<"T">> \o Rep("0", now))

(* text that JSON.parse rejects *)
NotJson == [json |-> [t |-> "SyntaxError", v |-> 0]]

TryJSONParse(text) == IF text.json.t = "SyntaxError" THEN Throw("SyntaxError") ELSE Ok(text.json)

(* data.value || null, a TypeError when data is null *)
ValueOf(data) ==
  IF data.t = "null" THEN Throw("TypeError")
  ELSE IF data.t = "object" /\ "value" \in DOMAIN data.v /\ ~Falsy(data.v.value)
         THEN Ok(data.v.value)
         ELSE Ok(JsNull)

InMemoryGet(b, key) ==
  [res |-> Ok(IF key \in DOMAIN b.store THEN b.store[key] ELSE JsNull), b |-> b]

InMemorySet(b, key, value) ==
  [res |-> Ok(JsUndefined), b |-> [b EXCEPT !.store = Put(b.store, key, value)]]

InMemoryDelete(b, key) ==
  [res |-> Ok(JsUndefined), b |-> [b EXCEPT !.store = Remove(b.store, key)]]

InMemoryExists(b, key) ==
  [res |-> Ok(JsBoolean(key \in DOMAIN b.store)), b |-> b]

(* readFile, JSON.parse and data.value, any failure but ENOENT wrapped *)
(* a read that takes a file it cannot parse for a missing one *)
FileReadLenient(b, filePath) ==
  IF filePath \notin DOMAIN b.store THEN Ok(JsNull)
  ELSE IF TryJSONParse(b.store[filePath]).st # "ok" THEN Ok(JsNull)
  ELSE IF ValueOf(JSONParse(b.store[filePath])).st # "ok" THEN Ok(JsNull)
  ELSE ValueOf(JSONParse(b.store[filePath]))

FileRead(b, filePath) ==
  IF filePath \notin DOMAIN b.store THEN Ok(JsNull)
  ELSE IF TryJSONParse(b.store[filePath]).st # "ok" THEN Throw("StorageError")
  ELSE IF ValueOf(JSONParse(b.store[filePath])).st # "ok" THEN Throw("StorageError")
  ELSE ValueOf(JSONParse(b.store[filePath]))

FileGet(b, key) ==
  IF verifyPath(getFilePath(key)) # "ok"
    THEN [res |-> Throw("StorageError"), b |-> [b EXCEPT !.dir = TRUE]]
    ELSE [res |-> FileRead(b, getFilePath(key)), b |-> [b EXCEPT !.dir = TRUE]]

FileSet(b, key, value, now) ==
  IF verifyPath(getFilePath(key)) # "ok"
    THEN [res |-> Throw("StorageError"), b |-> [b EXCEPT !.dir = TRUE]]
    ELSE [res |-> Ok(JsUndefined),
          b |-> [b EXCEPT !.dir = TRUE,
                          !.store = Put(b.store, getFilePath(key),
                                        JSONStringify(JsObject([value |-> value,
                                                                timestamp |-> ToISOString(now)])))]]

(* an unlink that lets ENOENT through *)
FileDeleteStrict(b, key) ==
  IF getFilePath(key) \notin DOMAIN b.store
    THEN [res |-> Throw("StorageError"), b |-> b]
    ELSE [res |-> Ok(JsUndefined), b |-> [b EXCEPT !.store = Remove(b.store, getFilePath(key))]]

FileDelete(b, key) ==
  IF verifyPath(getFilePath(key)) # "ok"
    THEN [res |-> Throw("StorageError"), b |-> b]
    ELSE [res |-> Ok(JsUndefined), b |-> [b EXCEPT !.store = Remove(b.store, getFilePath(key))]]

FileExists(b, key) ==
  IF verifyPath(getFilePath(key)) # "ok"
    THEN [res |-> Throw("StorageError"), b |-> b]
    ELSE [res |-> Ok(JsBoolean(getFilePath(key) \in DOMAIN b.store)), b |-> b]

BackendGet(b, key) == IF b.kind = "memory" THEN InMemoryGet(b, key) ELSE FileGet(b, key)
BackendSet(b, key, value, now) ==
  IF b.kind = "memory" THEN InMemorySet(b, key, value) ELSE FileSet(b, key, value, now)
BackendDelete(b, key) ==
  IF b.kind = "memory" THEN InMemoryDelete(b, key) ELSE FileDelete(b, key)
BackendExists(b, key) ==
  IF b.kind = "memory" THEN InMemoryExists(b, key) ELSE FileExists(b, key)

(* InMemoryStorage.clear *)
InMemoryClear(b) == [res |-> Ok(JsUndefined), b |-> [b EXCEPT !.store = EmptyMap]]

(* FileStorage.getAllKeys: the .json files of the base directory, suffix removed *)
FileGetAllKeys(b) ==
  {SubSeq(f[Len(basePath) + 1], 1, Len(f[Len(basePath) + 1]) - 1) :
     f \in {g \in DOMAIN b.store : Len(g) = Len(basePath) + 1
                                   /\ SubSeq(g, 1, Len(basePath)) = basePath}}

RECURSIVE FileDeleteAll(_, _)
FileDeleteAll(b, keys) ==
  IF keys = {} THEN b
  ELSE FileDeleteAll(FileDelete(b, CHOOSE k \in keys : TRUE).b,
                     keys \ {CHOOSE k \in keys : TRUE})

(* FileStorage.clear: delete(key) for every listed key *)
FileClear(b) ==
  [res |-> Ok(JsUndefined),
   b |-> FileDeleteAll([b EXCEPT !.dir = TRUE], FileGetAllKeys(b))]

BackendClear(b) == IF b.kind = "memory" THEN InMemoryClear(b) ELSE FileClear(b)

(* InMemoryStorage.getAllKeys: Array.from(this.store.keys()) *)
InMemoryGetAllKeys(b) == DOMAIN b.store

(* getAllKeys of either backend; a Map and a directory hold a name once, so the *)
(* returned array is given by the set of its elements. FileStorage creates the  *)
(* directory before it reads it.                                                *)
BackendGetAllKeys(b) ==
  IF b.kind = "memory"
  THEN [res |-> Ok([t |-> "array", v |-> InMemoryGetAllKeys(b)]), b |-> b]
  ELSE [res |-> Ok([t |-> "array", v |-> FileGetAllKeys(b)]), b |-> [b EXCEPT !.dir = TRUE]]

(* the file system calls of a FileStorage operation, with the path of each *)
FsCall(fn, path) == [fn |-> fn, path |-> path]

FileCalls(op, key) ==
  (IF op \in {"get", "set"} THEN <<FsCall("mkdir", basePath)>> ELSE <<>>)
  \o (IF verifyPath(getFilePath(key)) # "ok" THEN <<>>
      ELSE <<FsCall(CASE op = "get" -> "readFile"
                      [] op = "set" -> "writeFile"
                      [] op = "delete" -> "unlink"
                      [] op = "exists" -> "access",
                    getFilePath(key))>>)

BackendCalls(b, op, key) == IF b.kind = "memory" THEN <<>> ELSE FileCalls(op, key)

(* ------------------------------------------------------------------ *)
(* CredentialsManager operations. Each yields [res, b, cipher, calls]: *)
(* the result, the backend afterwards, the (function, key) pairs handed*)
(* to the encryption strategy and the backend methods called.          *)
(* ------------------------------------------------------------------ *)
Outcome(res, b, cipher, calls) == [res |-> res, b |-> b, cipher |-> cipher, calls |-> calls]

(* catch (error) { if (error instanceof CredentialsError) throw error; throw new CredentialsError } *)
Rethrow(cls) == IF cls \in CredentialsErrorClasses THEN cls ELSE "CredentialsError"

(* a load that returns whatever the decrypted text holds *)
LoadDecryptedUnparsed(decrypted, b, used) ==
  IF decrypted.st # "ok"
    THEN Outcome(Throw(Rethrow(decrypted.st)), b, used, <<"get">>)
    ELSE Outcome(Ok(JSONParse(decrypted.v)), b, used, <<"get">>)

LoadDecrypted(decrypted, b, used) ==
  IF decrypted.st # "ok"
    THEN Outcome(Throw(Rethrow(decrypted.st)), b, used, <<"get">>)
    ELSE IF TryJSONParse(decrypted.v).st # "ok"
           THEN Outcome(Throw(Rethrow(TryJSONParse(decrypted.v).st)), b, used, <<"get">>)
           ELSE Outcome(Ok(JSONParse(decrypted.v)), b, used, <<"get">>)

(* a load that answers a missing entry with an empty credentials map *)
LoadGotEmpty(mk, got) ==
  IF got.res.st # "ok"
    THEN Outcome(Throw(Rethrow(got.res.st)), got.b, <<>>, <<"get">>)
    ELSE IF Falsy(got.res.v)
           THEN Outcome(Ok(JsObject(EmptyMap)), got.b, <<>>, <<"get">>)
           ELSE LoadDecrypted(AESDecrypt(got.res.v, mk), got.b,
                              <<[fn |-> "decrypt", key |-> mk]>>)

LoadGot(mk, got) ==
  IF got.res.st # "ok"
    THEN Outcome(Throw(Rethrow(got.res.st)), got.b, <<>>, <<"get">>)
    ELSE IF Falsy(got.res.v)
           THEN Outcome(Throw("CredentialsError"), got.b, <<>>, <<"get">>)
           ELSE LoadDecrypted(AESDecrypt(got.res.v, mk), got.b,
                              <<[fn |-> "decrypt", key |-> mk]>>)

Load(mk, b, key) ==
  IF validateKey(key) # "ok"
    THEN Outcome(Throw("ValidationError"), b, <<>>, <<>>)
    ELSE LoadGot(mk, BackendGet(b, key.v))

SavePut(put, used) ==
  IF put.res.st # "ok"
    THEN Outcome(Throw(Rethrow(put.res.st)), put.b, used, <<"set">>)
    ELSE Outcome(Ok(JsUndefined), put.b, used, <<"set">>)

SaveEncrypted(encrypted, b, key, now, used) ==
  IF encrypted.st # "ok"
    THEN Outcome(Throw(Rethrow(encrypted.st)), b, used, <<>>)
    ELSE SavePut(BackendSet(b, key.v, encrypted.v, now), used)

(* a save that checks the credentials only after encrypting and storing them *)
SaveValidatingLast(mk, b, key, credentials, iv, now) ==
  IF validateKey(key) # "ok"
    THEN Outcome(Throw("ValidationError"), b, <<>>, <<>>)
    ELSE IF validateCredentials(credentials) # "ok"
           THEN Outcome(Throw("ValidationError"),
                        BackendSet(b, key.v, AESEncrypt(JSONStringify(credentials), mk, iv).v, now).b,
                        <<[fn |-> "encrypt", key |-> mk]>>, <<"set">>)
           ELSE SaveEncrypted(AESEncrypt(JSONStringify(credentials), mk, iv), b, key, now,
                              <<[fn |-> "encrypt", key |-> mk]>>)

Save(mk, b, key, credentials, iv, now) ==
  IF validateKey(key) # "ok"
    THEN Outcome(Throw("ValidationError"), b, <<>>, <<>>)
    ELSE IF validateCredentials(credentials) # "ok"
           THEN Outcome(Throw("ValidationError"), b, <<>>, <<>>)
           ELSE SaveEncrypted(AESEncrypt(JSONStringify(credentials), mk, iv), b, key, now,
                              <<[fn |-> "encrypt", key |-> mk]>>)

DeleteDone(del) ==
  IF del.res.st # "ok"
    THEN Outcome(Throw(Rethrow(del.res.st)), del.b, <<>>, <<"delete">>)
    ELSE Outcome(Ok(JsUndefined), del.b, <<>>, <<"delete">>)

Delete(b, key) ==
  IF validateKey(key) # "ok"
    THEN Outcome(Throw("ValidationError"), b, <<>>, <<>>)
    ELSE DeleteDone(BackendDelete(b, key.v))

ExistsDone(ex) ==
  IF ex.res.st # "ok"
    THEN Outcome(Throw(Rethrow(ex.res.st)), ex.b, <<>>, <<"exists">>)
    ELSE Outcome(Ok(ex.res.v), ex.b, <<>>, <<"exists">>)

Exists(b, key) ==
  IF validateKey(key) # "ok"
    THEN Outcome(Throw("ValidationError"), b, <<>>, <<>>)
    ELSE ExistsDone(BackendExists(b, key.v))

UpdateSaved(existing, updated, saving) ==
  IF saving.res.st # "ok"
    THEN Outcome(saving.res, saving.b, existing.cipher \o saving.cipher,
                 existing.calls \o saving.calls)
    ELSE Outcome(Ok(updated), saving.b, existing.cipher \o saving.cipher,
                 existing.calls \o saving.calls)

UpdateMerged(mk, existing, key, updated, iv, now) ==
  UpdateSaved(existing, updated, Save(mk, existing.b, key, updated, iv, now))

(* an update that creates the entry when the load fails *)
UpdateLoadedUpsert(mk, existing, key, updates, iv, now) ==
  IF existing.res.st # "ok"
    THEN UpdateMerged(mk, existing, key, updates, iv, now)
    ELSE UpdateMerged(mk, existing, key, SpreadMerge(existing.res.v, updates), iv, now)

UpdateLoaded(mk, existing, key, updates, iv, now) ==
  IF existing.res.st # "ok"
    THEN existing
    ELSE UpdateMerged(mk, existing, key, SpreadMerge(existing.res.v, updates), iv, now)

Update(mk, b, key, updates, iv, now) ==
  UpdateLoaded(mk, Load(mk, b, key), key, updates, iv, now)

SetMasterKeyResult(newKey) ==
  IF validateMasterKey(newKey) # "ok" THEN Throw("ValidationError") ELSE Ok(JsUndefined)

LoadScoped(mk, b, name, scope) == Load(mk, b, generateScopedKey(name, scope))
SaveScoped(mk, b, name, credentials, scope, iv, now) ==
  Save(mk, b, generateScopedKey(name, scope), credentials, iv, now)
DeleteScoped(b, name, scope) == Delete(b, generateScopedKey(name, scope))
ExistsScoped(b, name, scope) == Exists(b, generateScopedKey(name, scope))

(* private config: CredentialsConfig = {} *)
EmptyConfig ==
  [masterKey |-> JsUndefined, storageBackend |-> "undefined",
   encryptionStrategy |-> "undefined", environment |-> JsUndefined]

Development == JsString(<<"d", "e", "v", "e", "l", "o", "p", "m", "e", "n", "t">>)
Production == JsString(<<"p", "r", "o", "d", "u", "c", "t", "i", "o", "n">>)

(* this.encryptionStrategy and this.environment of new CredentialsManager(config) *)
ManagerEncryption(cfg) ==
  IF cfg.encryptionStrategy = "undefined" THEN "aes" ELSE cfg.encryptionStrategy
ManagerEnvironment(cfg) == IF Falsy(cfg.environment) THEN Development ELSE cfg.environment

(* new CredentialsManager(config), generated being CryptoUtils.generateMasterKey() *)
Constructor(config, generated) ==
  [masterKey |-> IF Falsy(config.masterKey) THEN generated ELSE config.masterKey.v,
   backend |-> CASE config.storageBackend = "file" -> NewFileStorage
                 [] OTHER -> NewInMemoryStorage]

(* ------------------------------------------------------------------ *)
(* Inputs                                                              *)
(* ------------------------------------------------------------------ *)
Key1 == Rep("a", MasterKeyHexLength)
Key2 == Rep("b", MasterKeyHexLength)
KeyShort == Rep("a", MasterKeyHexLength - 1)
KeyLong == Rep("a", MasterKeyHexLength + 1)
KeyUpper == Rep("A", MasterKeyHexLength)
KeyNonHex == Rep("g", MasterKeyHexLength)
KeyWord == <<"i", "n", "v", "a", "l", "i", "d">>

GeneratedKeys == {Key1}
ConfigKeyInputs == {JsUndefined, JsString(Key1), JsString(KeyUpper)}
SetKeyInputs ==
  {JsString(k) : k \in {Key1, Key2, KeyShort, KeyLong, KeyUpper, KeyNonHex, KeyWord, <<>>}}
StorageInputs == {"undefined", "memory", "file"}
BuilderKeyInputs == {JsString(Key1), JsString(Key2), JsString(KeyUpper), JsString(<<>>)}
EnvironmentInputs == {Production, JsString(<<>>)}

NameAB == JsString(<<"a", "/", "b">>)
NameA_B == JsString(<<"a", "_", "b">>)
NameEmpty == JsString(<<>>)
NameTooLong == JsString(Rep("x", MaxKeyNameLength + 1))
KeyInputs == {NameAB, NameA_B, NameEmpty, NameTooLong, JsNumber(123)}
NameInputs == {NameAB}
ScopeInputs == {JsUndefined, JsString(<<>>), JsString(<<"p">>), JsString(<<".">>)}
ScopedKeyInputs == {JsString(<<"a", "/", "b", ".", "p">>)}

CredsA == JsObject([u |-> JsString(<<"x">>)])
CredsB == JsObject([u |-> JsString(<<"v">>),
                    n |-> JsObject([h |-> JsString(<<"l">>), p |-> JsNumber(1)])])
CredentialsInputs == {CredsA, CredsB, JsNull, JsString(<<"x">>), JsArray(<<>>)}
UpdateInputs == {JsObject([n |-> JsObject([p |-> JsNumber(2)])])}

(* keys and blobs given to a StorageBackend directly *)
KeyTraversal ==
  <<".", ".", "/", ".", ".", "/", "e", "t", "c", "/", "p", "a", "s", "s", "w", "d">>
RawKeyInputs == {KeyTraversal, NameAB.v, NameA_B.v, <<".", ".">>, <<"a", "\\", "b">>}
BlobInputs == {JsString(<<>>), JsString(<<"0", "a">>), JsString(<<"f", "f">>)}
(* what a file can hold when something else wrote it *)
ForeignContents == {NotJson, JSONStringify(JsNull), JSONStringify(JsObject(EmptyMap))}

IVs == 1..MaxIV
Timestamps == 1..MaxTime

(* ------------------------------------------------------------------ *)
(* State                                                               *)
(* ------------------------------------------------------------------ *)
VARIABLES
  phase,      \* "builder" until a manager is constructed, then "ready"
  config,     \* CredentialsBuilder.config
  masterKey,  \* CredentialsManager.masterKey
  backend,    \* CredentialsManager.storageBackend
  lastOp,     \* the last call: its name, arguments, result, cipher and backend calls
  ops,        \* number of manager calls made
  saved,      \* history: key -> credentials of the last save of that key, while no
              \* later save/update/delete of the key and no setMasterKey happened;
              \* of a backend used directly, key -> value last set and not deleted
  savedUnder, \* history: stored entry -> master key in force when it was last written
  inFlight,   \* the calls started without awaiting one another: for each its
              \* arguments, the await it is suspended at, and its result
  previous    \* history: the last encrypt call made before the last call on the
              \* AESEncryption object

vars == <<phase, config, masterKey, backend, lastOp, ops, saved, savedUnder, inFlight, previous>>

Call(op, key, scope, arg, out) ==
  [op |-> op, key |-> key, scope |-> scope, arg |-> arg,
   res |-> out.res, cipher |-> out.cipher, calls |-> out.calls]

NoCall == Outcome(Ok(JsUndefined), NewInMemoryStorage, <<>>, <<>>)

Init ==
  /\ phase = "builder"
  /\ config = EmptyConfig
  /\ masterKey = <<>>
  /\ backend = NewInMemoryStorage
  /\ lastOp = Call("createCredentialsBuilder", JsUndefined, JsUndefined, JsUndefined, NoCall)
  /\ ops = 0
  /\ saved = EmptyMap
  /\ savedUnder = EmptyMap
  /\ inFlight = <<>>
  /\ previous = lastOp

(* ---------------- CredentialsBuilder ---------------- *)
WithMasterKey(key) ==
  /\ phase = "builder"
  /\ config' = [config EXCEPT !.masterKey = key]
  /\ lastOp' = Call("withMasterKey", JsUndefined, JsUndefined, key, NoCall)
  /\ UNCHANGED <<phase, masterKey, backend, ops, saved, savedUnder, inFlight, previous>>

WithGeneratedMasterKey(generated) ==
  /\ phase = "builder"
  /\ config' = [config EXCEPT !.masterKey = JsString(generated)]
  /\ lastOp' = Call("withGeneratedMasterKey", JsUndefined, JsUndefined, JsUndefined, NoCall)
  /\ UNCHANGED <<phase, masterKey, backend, ops, saved, savedUnder, inFlight, previous>>

WithInMemoryStorage ==
  /\ phase = "builder"
  /\ config' = [config EXCEPT !.storageBackend = "memory"]
  /\ lastOp' = Call("withInMemoryStorage", JsUndefined, JsUndefined, JsUndefined, NoCall)
  /\ UNCHANGED <<phase, masterKey, backend, ops, saved, savedUnder, inFlight, previous>>

WithFileStorage ==
  /\ phase = "builder"
  /\ config' = [config EXCEPT !.storageBackend = "file"]
  /\ lastOp' = Call("withFileStorage", JsUndefined, JsUndefined, JsUndefined, NoCall)
  /\ UNCHANGED <<phase, masterKey, backend, ops, saved, savedUnder, inFlight, previous>>

WithAESEncryption ==
  /\ phase = "builder"
  /\ config' = [config EXCEPT !.encryptionStrategy = "aes"]
  /\ lastOp' = Call("withAESEncryption", JsUndefined, JsUndefined, JsUndefined, NoCall)
  /\ UNCHANGED <<phase, masterKey, backend, ops, saved, savedUnder, inFlight, previous>>

WithEnvironment(environment) ==
  /\ phase = "builder"
  /\ config' = [config EXCEPT !.environment = environment]
  /\ lastOp' = Call("withEnvironment", JsUndefined, JsUndefined, environment, NoCall)
  /\ UNCHANGED <<phase, masterKey, backend, ops, saved, savedUnder, inFlight, previous>>

Build(generated) ==
  /\ phase = "builder"
  /\ LET defaults == [masterKey |-> IF Falsy(config.masterKey)
                                      THEN JsString(generated) ELSE config.masterKey,
                      storageBackend |-> IF config.storageBackend = "undefined"
                                           THEN "memory" ELSE config.storageBackend,
                      encryptionStrategy |-> IF config.encryptionStrategy = "undefined"
                                               THEN "aes" ELSE config.encryptionStrategy,
                      environment |-> IF Falsy(config.environment)
                                        THEN Development ELSE config.environment]
         made == Constructor(defaults, generated)
     IN /\ config' = defaults
        /\ masterKey' = made.masterKey
        /\ backend' = made.backend
        /\ lastOp' = Call("build", JsUndefined, JsUndefined, config.masterKey, NoCall)
  /\ phase' = "ready"
  /\ UNCHANGED <<ops, saved, savedUnder, inFlight, previous>>

(* new CredentialsManager(cfg) *)
New(cfg, generated) ==
  /\ phase = "builder"
  /\ config = EmptyConfig
  /\ LET made == Constructor(cfg, generated)
     IN /\ masterKey' = made.masterKey
        /\ backend' = made.backend
        /\ lastOp' = Call("new", JsUndefined, JsUndefined, cfg.masterKey, NoCall)
  /\ phase' = "ready"
  /\ UNCHANGED <<config, ops, saved, savedUnder, inFlight, previous>>

(* getEnvironment() of the manager: build hands its config, defaults filled in, *)
(* to the constructor, and no method of the manager assigns the field           *)
getEnvironment == ManagerEnvironment(config)

(* ---------------- history bookkeeping ---------------- *)
Forget(h, key) == IF key.t = "string" THEN Remove(h, key.v) ELSE h
Record(h, key, value) == Put(h, key.v, value)

(* where the backend keeps the entry of a key: the Map key, or the file *)
Slot(key) == IF backend.kind = "memory" THEN key.v ELSE getFilePath(key.v)

(* ---------------- CredentialsManager ---------------- *)
Ready == phase = "ready" /\ ops < MaxOps

Returned(op, name, scope, arg, out) ==
  /\ backend' = out.b
  /\ lastOp' = Call(op, name, scope, arg, out)
  /\ ops' = ops + 1
  /\ UNCHANGED <<phase, config, masterKey, inFlight, previous>>

Saved(key, credentials, out) ==
  /\ saved' = IF out.res.st = "ok" THEN Record(saved, key, credentials) ELSE Forget(saved, key)
  /\ savedUnder' = IF out.res.st = "ok" THEN Put(savedUnder, Slot(key), masterKey) ELSE savedUnder

Deleted(key, out) ==
  /\ saved' = Forget(saved, key)
  /\ savedUnder' = IF out.res.st = "ok" THEN Remove(savedUnder, Slot(key)) ELSE savedUnder

Updated(key, out) ==
  /\ saved' = Forget(saved, key)
  /\ savedUnder' = IF out.res.st = "ok" THEN Put(savedUnder, Slot(key), masterKey) ELSE savedUnder

LoadReturned(op, name, scope, out) ==
  Returned(op, name, scope, JsUndefined, out) /\ UNCHANGED <<saved, savedUnder>>

SaveReturned(op, name, scope, key, credentials, out) ==
  Returned(op, name, scope, credentials, out) /\ Saved(key, credentials, out)

DeleteReturned(op, name, scope, key, out) ==
  Returned(op, name, scope, JsUndefined, out) /\ Deleted(key, out)

UpdateReturned(key, updates, out) ==
  Returned("update", key, JsUndefined, updates, out) /\ Updated(key, out)

DoLoad(op, name, scope) ==
  /\ Ready
  /\ LoadReturned(op, name, scope, Load(masterKey, backend, generateScopedKey(name, scope)))

DoSave(op, name, scope, credentials, iv, now) ==
  /\ Ready
  /\ SaveReturned(op, name, scope, generateScopedKey(name, scope), credentials,
                  Save(masterKey, backend, generateScopedKey(name, scope), credentials, iv, now))

DoDelete(op, name, scope) ==
  /\ Ready
  /\ DeleteReturned(op, name, scope, generateScopedKey(name, scope),
                    Delete(backend, generateScopedKey(name, scope)))

DoExists(op, name, scope) ==
  /\ Ready
  /\ LoadReturned(op, name, scope, Exists(backend, generateScopedKey(name, scope)))

LoadOp(key) == DoLoad("load", key, JsUndefined)
SaveOp(key, credentials, iv, now) == DoSave("save", key, JsUndefined, credentials, iv, now)
DeleteOp(key) == DoDelete("delete", key, JsUndefined)
ExistsOp(key) == DoExists("exists", key, JsUndefined)

UpdateOp(key, updates, iv, now) ==
  /\ Ready
  /\ UpdateReturned(key, updates, Update(masterKey, backend, key, updates, iv, now))

(* a setMasterKey that assigns the key before it validates it *)
SetMasterKeyAssigning(newKey, res) ==
  /\ masterKey' = newKey.v
  /\ lastOp' = Call("setMasterKey", JsUndefined, JsUndefined, newKey,
                    Outcome(res, backend, <<>>, <<>>))
  /\ ops' = ops + 1
  /\ saved' = IF res.st = "ok" THEN EmptyMap ELSE saved
  /\ UNCHANGED <<phase, config, backend, savedUnder, inFlight, previous>>

SetMasterKeyReturned(newKey, res) ==
  /\ masterKey' = IF res.st = "ok" THEN newKey.v ELSE masterKey
  /\ lastOp' = Call("setMasterKey", JsUndefined, JsUndefined, newKey,
                    Outcome(res, backend, <<>>, <<>>))
  /\ ops' = ops + 1
  /\ saved' = IF res.st = "ok" THEN EmptyMap ELSE saved
  /\ UNCHANGED <<phase, config, backend, savedUnder, inFlight, previous>>

SetMasterKeyOp(newKey) ==
  /\ Ready
  /\ SetMasterKeyReturned(newKey, SetMasterKeyResult(newKey))

LoadScopedOp(name, scope) == DoLoad("loadScoped", name, scope)
SaveScopedOp(name, credentials, scope, iv, now) ==
  DoSave("saveScoped", name, scope, credentials, iv, now)
DeleteScopedOp(name, scope) == DoDelete("deleteScoped", name, scope)
ExistsScopedOp(name, scope) == DoExists("existsScoped", name, scope)

(* crypto.randomBytes(ivLength) runs only once encrypt has accepted the key, *)
(* and new Date() only in FileStorage.set                                   *)
IVsDrawn(key, credentials) ==
  IF /\ validateKey(key) = "ok"
     /\ validateCredentials(credentials) = "ok"
     /\ Len(BufferFromHex(masterKey)) = keyLength
    THEN IVs ELSE {0}

TimesRead(key, credentials) ==
  IF backend.kind = "file" /\ IVsDrawn(key, credentials) # {0} THEN Timestamps ELSE {0}

UpdateIVsDrawn(key) ==
  IF Load(masterKey, backend, key).res.st = "ok" THEN IVs ELSE {0}

UpdateTimesRead(key) ==
  IF backend.kind = "file" /\ UpdateIVsDrawn(key) # {0} THEN Timestamps ELSE {0}

Next ==
  \/ \E key \in ConfigKeyInputs, storage \in StorageInputs, generated \in GeneratedKeys :
       New([masterKey |-> key, storageBackend |-> storage], generated)
  \/ \E key \in KeyInputs : LoadOp(key)
  \/ \E key \in KeyInputs, credentials \in CredentialsInputs :
       \E iv \in IVsDrawn(key, credentials), now \in TimesRead(key, credentials) :
         SaveOp(key, credentials, iv, now)
  \/ \E key \in KeyInputs : DeleteOp(key)
  \/ \E key \in KeyInputs : ExistsOp(key)
  \/ \E key \in KeyInputs, updates \in UpdateInputs :
       \E iv \in UpdateIVsDrawn(key), now \in UpdateTimesRead(key) :
         UpdateOp(key, updates, iv, now)
  \/ \E newKey \in SetKeyInputs : SetMasterKeyOp(newKey)

Spec == Init /\ [][Next]_vars

(* the scoped variants, over the same manager *)
NextScoped ==
  \/ \E storage \in {"memory", "file"}, generated \in GeneratedKeys :
       New([masterKey |-> JsString(Key1), storageBackend |-> storage], generated)
  \/ \E name \in NameInputs, scope \in ScopeInputs : LoadScopedOp(name, scope)
  \/ \E name \in NameInputs, scope \in ScopeInputs, credentials \in {CredsA, CredsB, JsNull} :
       \E iv \in IVsDrawn(generateScopedKey(name, scope), credentials),
          now \in TimesRead(generateScopedKey(name, scope), credentials) :
         SaveScopedOp(name, credentials, scope, iv, now)
  \/ \E name \in NameInputs, scope \in ScopeInputs : DeleteScopedOp(name, scope)
  \/ \E name \in NameInputs, scope \in ScopeInputs : ExistsScopedOp(name, scope)
  \/ \E key \in ScopedKeyInputs : LoadOp(key)
  \/ \E key \in ScopedKeyInputs, credentials \in {CredsA, CredsB} :
       \E iv \in IVsDrawn(key, credentials), now \in TimesRead(key, credentials) :
         SaveOp(key, credentials, iv, now)

SpecScoped == Init /\ [][NextScoped]_vars

(* a manager assembled by CredentialsBuilder, then used *)
NextBuilder ==
  \/ \E key \in BuilderKeyInputs : WithMasterKey(key)
  \/ \E generated \in GeneratedKeys : WithGeneratedMasterKey(generated)
  \/ WithInMemoryStorage
  \/ WithFileStorage
  \/ WithAESEncryption
  \/ \E environment \in EnvironmentInputs : WithEnvironment(environment)
  \/ \E generated \in GeneratedKeys : Build(generated)
  \/ \E key \in KeyInputs : LoadOp(key)
  \/ \E key \in KeyInputs, credentials \in CredentialsInputs :
       \E iv \in IVsDrawn(key, credentials), now \in TimesRead(key, credentials) :
         SaveOp(key, credentials, iv, now)

SpecBuilder == Init /\ [][NextBuilder]_vars

(* ---------------- a StorageBackend used directly ---------------- *)
NewStorage(kind) ==
  /\ phase = "builder"
  /\ config = EmptyConfig
  /\ phase' = "storage"
  /\ backend' = IF kind = "memory" THEN NewInMemoryStorage ELSE NewFileStorage
  /\ lastOp' = Call("newStorage", JsUndefined, JsUndefined, JsUndefined, NoCall)
  /\ UNCHANGED <<config, masterKey, ops, saved, savedUnder, inFlight, previous>>

StorageReady == phase = "storage" /\ ops < MaxOps

(* history of a backend used directly: key -> value of the last set of that key *)
(* that returned, while no later delete of the key and no clear returned        *)
StorageSaved(h, op, key, value, res) ==
  IF res.st # "ok" THEN h
  ELSE CASE op = "set" -> Put(h, key, value)
         [] op = "delete" -> Remove(h, key)
         [] op = "clear" -> EmptyMap
         [] OTHER -> h

StorageReturned(op, key, value, out) ==
  /\ backend' = out.b
  /\ lastOp' = Call(op, key, JsUndefined, value,
                    Outcome(out.res, out.b, <<>>,
                            IF op \in {"clear", "getAllKeys"} THEN <<>>
                            ELSE BackendCalls(backend, op, key)))
  /\ ops' = ops + 1
  /\ saved' = StorageSaved(saved, op, key, value, out.res)
  /\ UNCHANGED <<phase, config, masterKey, savedUnder, inFlight, previous>>

StorageGet(key) ==
  StorageReady /\ StorageReturned("get", key, JsUndefined, BackendGet(backend, key))

StorageSet(key, value, now) ==
  StorageReady /\ StorageReturned("set", key, value, BackendSet(backend, key, value, now))

StorageDelete(key) ==
  StorageReady /\ StorageReturned("delete", key, JsUndefined, BackendDelete(backend, key))

StorageExists(key) ==
  StorageReady /\ StorageReturned("exists", key, JsUndefined, BackendExists(backend, key))

StorageClear ==
  StorageReady /\ StorageReturned("clear", <<>>, JsUndefined, BackendClear(backend))

StorageGetAllKeys ==
  StorageReady /\ StorageReturned("getAllKeys", <<>>, JsUndefined, BackendGetAllKeys(backend))

(* something other than the FileStorage rewrites one of its files *)
ForeignWrite(key, content) ==
  /\ phase \in {"storage", "ready"}
  /\ ops < MaxOps
  /\ backend.kind = "file"
  /\ getFilePath(key) \in DOMAIN backend.store
  /\ backend' = [backend EXCEPT !.store = Put(backend.store, getFilePath(key), content)]
  /\ lastOp' = Call("foreignWrite", key, JsUndefined, JsUndefined,
                    Outcome(Ok(JsUndefined), backend, <<>>, <<>>))
  /\ ops' = ops + 1
  /\ UNCHANGED <<phase, config, masterKey, saved, savedUnder, inFlight, previous>>

NextStorage ==
  \/ \E kind \in {"memory", "file"} : NewStorage(kind)
  \/ \E key \in RawKeyInputs : StorageGet(key)
  \/ \E key \in RawKeyInputs, value \in BlobInputs :
       \E now \in (IF backend.kind = "file" THEN Timestamps ELSE {0}) :
         StorageSet(key, value, now)
  \/ \E key \in RawKeyInputs : StorageDelete(key)
  \/ \E key \in RawKeyInputs : StorageExists(key)
  \/ StorageClear
  \/ StorageGetAllKeys
  \/ \E key \in RawKeyInputs, content \in ForeignContents : ForeignWrite(key, content)

SpecStorage == Init /\ [][NextStorage]_vars

(* ---------------- calls in flight together ---------------- *)
(* A call runs to its next await; what it awaits from the file system takes     *)
(* effect in a later step, and steps of other calls come in between.            *)
(* fs.writeFile opens its file with flag 'w', which empties it, and then writes *)
(* its text from offset 0.                                                      *)

(* text of the given length that JSON.parse rejects; the empty file is Garbled(0) *)
Garbled(len) == [json |-> [t |-> "SyntaxError", v |-> len]]

StringLength(x) == IF x.t = "hex" THEN x.v.len ELSE Len(x.v)

(* length of a file's text; JSON.stringify(data, null, 2) of a stored record is *)
(* its value and 60 more characters                                             *)
TextLength(content) ==
  IF content.json.t = "SyntaxError" THEN content.json.v
  ELSE IF content.json.t = "object" /\ "value" \in DOMAIN content.json.v
         THEN StringLength(content.json.v.value) + 60
         ELSE 4

(* the file after text is written at offset 0 over what it held *)
Overlay(text, held) ==
  IF TextLength(text) >= TextLength(held) THEN text ELSE Garbled(TextLength(held))

Suspended(op, key, arg, pc, blob) ==
  [op |-> op, key |-> key, arg |-> arg, pc |-> pc, blob |-> blob,
   text |-> Garbled(0), res |-> Ok(JsUndefined)]

Settled(op, key, arg, res) ==
  [op |-> op, key |-> key, arg |-> arg, pc |-> "done", blob |-> JsUndefined,
   text |-> Garbled(0), res |-> res]

Settle(call, res) == Settled(call.op, call.key, call.arg, res)

(* save up to its await of storageBackend.set *)
SaveStarted(key, credentials, encrypted) ==
  IF validateKey(key) # "ok" \/ validateCredentials(credentials) # "ok"
    THEN Settled("save", key, credentials, Throw("ValidationError"))
    ELSE IF encrypted.st # "ok"
           THEN Settled("save", key, credentials, Throw(Rethrow(encrypted.st)))
           ELSE Suspended("save", key, credentials,
                          IF backend.kind = "memory" THEN "set" ELSE "mkdir", encrypted.v)

(* load up to its await of storageBackend.get; InMemoryStorage.get has read the Map *)
LoadStarted(key) ==
  IF validateKey(key) # "ok"
    THEN Settled("load", key, JsUndefined, Throw("ValidationError"))
    ELSE IF backend.kind = "memory"
           THEN Settled("load", key, JsUndefined,
                        LoadGot(masterKey, InMemoryGet(backend, key.v)).res)
           ELSE Suspended("load", key, JsUndefined, "mkdir", JsUndefined)

(* exists up to its await of storageBackend.exists *)
ExistsStarted(key) ==
  IF validateKey(key) # "ok"
    THEN Settled("exists", key, JsUndefined, Throw("ValidationError"))
    ELSE IF backend.kind = "memory"
           THEN Settled("exists", key, JsUndefined,
                        ExistsDone(InMemoryExists(backend, key.v)).res)
           ELSE IF verifyPath(getFilePath(key.v)) # "ok"
                  THEN Settled("exists", key, JsUndefined, Throw("StorageError"))
                  ELSE Suspended("exists", key, JsUndefined, "access", JsUndefined)

(* update when its load has returned: the error of the load, or on to the merge *)
UpdateLoadReturned(call, loaded) ==
  IF loaded.st # "ok" THEN Settle(call, loaded)
  ELSE [call EXCEPT !.pc = "merge", !.blob = loaded.v]

(* update up to the first await of its load *)
UpdateStarted(key, updates) ==
  IF LoadStarted(key).pc = "done"
    THEN UpdateLoadReturned(Suspended("update", key, updates, "mkdir", JsUndefined),
                            LoadStarted(key).res)
    ELSE Suspended("update", key, updates, "mkdir", JsUndefined)

(* an update that merges into the entry as it is stored when the load has returned *)
UpdateMergingStored(call, iv) ==
  LET stored == Load(masterKey, backend, call.key).res
      updated == SpreadMerge(IF stored.st = "ok" THEN stored.v ELSE call.blob, call.arg)
      start == SaveStarted(call.key, updated,
                           AESEncrypt(JSONStringify(updated), masterKey, iv))
  IN IF start.pc = "done" THEN Settle(call, start.res)
     ELSE [call EXCEPT !.pc = start.pc, !.blob = start.blob, !.res = Ok(updated)]

(* update from { ...existing, ...updates } up to the await of storageBackend.set *)
(* in its save; the value it will return is kept in res                         *)
UpdateSaveStarted(call, iv) ==
  LET updated == SpreadMerge(call.blob, call.arg)
      start == SaveStarted(call.key, updated,
                           AESEncrypt(JSONStringify(updated), masterKey, iv))
  IN IF start.pc = "done" THEN Settle(call, start.res)
     ELSE [call EXCEPT !.pc = start.pc, !.blob = start.blob, !.res = Ok(updated)]

Started(call) ==
  /\ phase = "ready"
  /\ Len(inFlight) < MaxCalls
  /\ inFlight' = Append(inFlight, call)
  /\ UNCHANGED <<phase, config, masterKey, backend, lastOp, ops, saved, savedUnder, previous>>

StartSave(key, credentials, iv) ==
  Started(SaveStarted(key, credentials, AESEncrypt(JSONStringify(credentials), masterKey, iv)))

StartLoad(key) == Started(LoadStarted(key))

StartExists(key) == Started(ExistsStarted(key))

StartUpdate(key, updates) == Started(UpdateStarted(key, updates))

At(id, pc) == id \in DOMAIN inFlight /\ inFlight[id].pc = pc

Resumed(id, call, b) ==
  /\ inFlight' = [inFlight EXCEPT ![id] = call]
  /\ backend' = b
  /\ UNCHANGED <<phase, config, masterKey, lastOp, ops, saved, savedUnder, previous>>

(* update goes on from the credentials its load returned: it merges and calls save *)
Merge(id, iv) ==
  /\ At(id, "merge")
  /\ Resumed(id, UpdateSaveStarted(inFlight[id], iv), backend)

(* InMemoryStorage.set, reached when the await of encrypt resumes *)
MapSet(id) ==
  /\ At(id, "set")
  /\ Resumed(id, Settle(inFlight[id], inFlight[id].res),
             InMemorySet(backend, inFlight[id].key.v, inFlight[id].blob).b)

(* ensureDirectory of FileStorage.get and FileStorage.set, then verifyPath *)
Mkdir(id) ==
  /\ At(id, "mkdir")
  /\ Resumed(id,
             IF verifyPath(getFilePath(inFlight[id].key.v)) # "ok"
               THEN Settle(inFlight[id], Throw("StorageError"))
               ELSE [inFlight[id] EXCEPT
                       !.pc = IF inFlight[id].blob # JsUndefined THEN "open" ELSE "read"],
             [backend EXCEPT !.dir = TRUE])

(* fs.writeFile has opened the file: it exists and is empty *)
OpenFile(id, now) ==
  /\ At(id, "open")
  /\ Resumed(id,
             [inFlight[id] EXCEPT
                !.pc = "write",
                !.text = JSONStringify(JsObject([value |-> inFlight[id].blob,
                                                 timestamp |-> ToISOString(now)]))],
             [backend EXCEPT !.store = Put(backend.store, getFilePath(inFlight[id].key.v),
                                           Garbled(0))])

(* fs.writeFile has written its text *)
WriteFile(id) ==
  /\ At(id, "write")
  /\ Resumed(id, Settle(inFlight[id], inFlight[id].res),
             [backend EXCEPT
                !.store = Put(backend.store, getFilePath(inFlight[id].key.v),
                              Overlay(inFlight[id].text,
                                      backend.store[getFilePath(inFlight[id].key.v)]))])

(* fs.readFile of FileStorage.get has read the file; load goes on to decrypt *)
ReadFile(id) ==
  /\ At(id, "read")
  /\ LET loaded == LoadGot(masterKey,
                           [res |-> FileRead(backend, getFilePath(inFlight[id].key.v)),
                            b |-> backend]).res
     IN Resumed(id,
                IF inFlight[id].op = "update" THEN UpdateLoadReturned(inFlight[id], loaded)
                ELSE Settle(inFlight[id], loaded),
                backend)

(* fs.access of FileStorage.exists *)
Access(id) ==
  /\ At(id, "access")
  /\ Resumed(id,
             Settle(inFlight[id],
                    Ok(JsBoolean(getFilePath(inFlight[id].key.v) \in DOMAIN backend.store))),
             backend)

CallIds == 1..MaxCalls
ConcurrentKey == NameA_B
(* the calls differ in what they store, so one IV and one clock reading do *)
ConcurrentIVs == {1}
ConcurrentTimes == {1}
ConcurrentUpdates == {JsObject([a |-> JsNumber(1)]), JsObject([b |-> JsNumber(2)])}

NextConcurrent ==
  \/ \E storage \in {"memory", "file"}, generated \in GeneratedKeys :
       New([masterKey |-> JsString(Key1), storageBackend |-> storage], generated)
  \/ \E credentials \in {CredsA, CredsB}, iv \in ConcurrentIVs :
       StartSave(ConcurrentKey, credentials, iv)
  \/ StartLoad(ConcurrentKey)
  \/ StartExists(ConcurrentKey)
  \/ \E updates \in ConcurrentUpdates : StartUpdate(ConcurrentKey, updates)
  \/ \E id \in CallIds, iv \in ConcurrentIVs : Merge(id, iv)
  \/ \E id \in CallIds : MapSet(id)
  \/ \E id \in CallIds : Mkdir(id)
  \/ \E id \in CallIds, now \in ConcurrentTimes : OpenFile(id, now)
  \/ \E id \in CallIds : WriteFile(id)
  \/ \E id \in CallIds : ReadFile(id)
  \/ \E id \in CallIds : Access(id)

SpecConcurrent == Init /\ [][NextConcurrent]_vars

(* ---------------- AESEncryption on its own ---------------- *)
CipherKeys == {Key1, Key2, KeyShort, KeyLong, KeyUpper, KeyWord}
CipherData == {EmptyText, JSONStringify(CredsA), JSONStringify(CredsB)}
CipherIVs == 1..MaxCipherIV
ByteChanges == {255}

NewAESEncryption ==
  /\ phase = "builder"
  /\ lastOp.op = "createCredentialsBuilder"
  /\ phase' = "cipher"
  /\ lastOp' = Call("AESEncryption", JsUndefined, JsUndefined, JsUndefined, NoCall)
  /\ UNCHANGED <<config, masterKey, backend, ops, saved, savedUnder, inFlight, previous>>

CipherReady == phase = "cipher" /\ ops < MaxCipherOps

CipherReturned(op, key, arg, res, drawn) ==
  /\ lastOp' = Call(op, JsString(key), JsUndefined, arg,
                    Outcome(res, backend, drawn, <<>>))
  /\ ops' = ops + 1
  /\ previous' = IF lastOp.op = "encrypt" THEN lastOp ELSE previous
  /\ UNCHANGED <<phase, config, masterKey, backend, saved, savedUnder, inFlight>>

(* crypto.randomBytes(ivLength) is reached only with key bytes of the right length *)
CipherIVsDrawn(key) == IF Len(BufferFromHex(key)) = keyLength THEN CipherIVs ELSE {0}

Encrypt(data, key, iv) ==
  /\ CipherReady
  /\ iv \in CipherIVsDrawn(key)
  /\ CipherReturned("encrypt", key, data, AESEncrypt(data, key, iv),
                    IF iv = 0 THEN <<>> ELSE <<[fn |-> "randomBytes", iv |-> iv]>>)

IsEncrypted == phase = "cipher" /\ lastOp.op = "encrypt" /\ lastOp.res.st = "ok"

(* crypto.createDecipheriv is reached only with key bytes of the right length *)
DecipherCalls(key) ==
  IF Len(BufferFromHex(key)) = keyLength THEN <<[fn |-> "createDecipheriv", iv |-> 0]>> ELSE <<>>

(* decrypt of the string the last encrypt returned *)
Decrypt(key) ==
  /\ CipherReady
  /\ IsEncrypted
  /\ CipherReturned("decrypt", key, BufferOf(lastOp.res.v),
                    DecryptBuffer(BufferOf(lastOp.res.v), BufferFromHex(key)),
                    DecipherCalls(key))

(* decrypt of that string with one byte changed *)
DecryptChanged(key, at, by) ==
  /\ CipherReady
  /\ IsEncrypted
  /\ at < Len(BufferOf(lastOp.res.v))
  /\ CipherReturned("decrypt", key, ChangeByte(BufferOf(lastOp.res.v), at, by),
                    DecryptBuffer(ChangeByte(BufferOf(lastOp.res.v), at, by),
                                  BufferFromHex(key)),
                    DecipherCalls(key))

(* decrypt of the first n bytes of that string: the string cut short, or with a *)
(* character that is not a hex digit after them                                 *)
DecryptTruncated(key, n) ==
  /\ CipherReady
  /\ IsEncrypted
  /\ CipherReturned("decrypt", key, subarray(BufferOf(lastOp.res.v), 0, n),
                    DecryptBuffer(subarray(BufferOf(lastOp.res.v), 0, n), BufferFromHex(key)),
                    DecipherCalls(key))

BlobOffsets == 0..(ivLength + authTagLength + 12)

NextCipher ==
  \/ NewAESEncryption
  \/ \E data \in CipherData, key \in CipherKeys, iv \in {0} \cup CipherIVs :
       Encrypt(data, key, iv)
  \/ \E key \in CipherKeys : Decrypt(key)
  \/ \E key \in {Key1, Key2}, at \in BlobOffsets, by \in ByteChanges :
       DecryptChanged(key, at, by)
  \/ \E key \in {Key1, Key2}, n \in 0..(ivLength + authTagLength - 1) :
       DecryptTruncated(key, n)

SpecCipher == Init /\ [][NextCipher]_vars

(* ---------------- a manager over a store that others write to ---------------- *)
(* the caller stores, through the backend it gave to the manager, a blob that   *)
(* the manager's cipher and key made of a text                                  *)
StoreBlob(key, data, iv, now) ==
  /\ Ready
  /\ AESEncrypt(data, masterKey, iv).st = "ok"
  /\ backend' = BackendSet(backend, key, AESEncrypt(data, masterKey, iv).v, now).b
  /\ lastOp' = Call("set", key, JsUndefined, AESEncrypt(data, masterKey, iv).v,
                    Outcome(Ok(JsUndefined), backend, <<>>, <<"set">>))
  /\ ops' = ops + 1
  /\ UNCHANGED <<phase, config, masterKey, saved, savedUnder, inFlight, previous>>

FaultyKeys == {NameA_B, NameEmpty}

NextFaulty ==
  \/ \E key \in {Key1, KeyShort}, storage \in {"memory", "file"}, generated \in GeneratedKeys :
       New([masterKey |-> JsString(key), storageBackend |-> storage], generated)
  \/ \E key \in FaultyKeys : LoadOp(key)
  \/ \E key \in FaultyKeys, credentials \in {CredsA, JsNull} :
       \E iv \in IVsDrawn(key, credentials), now \in TimesRead(key, credentials) :
         SaveOp(key, credentials, iv, now)
  \/ \E key \in FaultyKeys : DeleteOp(key)
  \/ \E key \in FaultyKeys : ExistsOp(key)
  \/ \E key \in FaultyKeys, updates \in UpdateInputs :
       \E iv \in UpdateIVsDrawn(key), now \in UpdateTimesRead(key) :
         UpdateOp(key, updates, iv, now)
  \/ SetMasterKeyOp(JsString(Key2))
  \/ \E content \in ForeignContents : ForeignWrite(NameA_B.v, content)
  \/ \E iv \in IVs, now \in Timestamps : StoreBlob(NameA_B.v, EmptyText, iv, now)

SpecFaulty == Init /\ [][NextFaulty]_vars

(* ---------------- CryptoUtils ---------------- *)
(* crypto.pbkdf2Sync(password, salt, iterations, keyLength, 'sha256'), as a term; *)
(* it throws for iterations below 1 and for a negative keyLength                *)
Pbkdf2(password, salt, iterations, length) ==
  [password |-> password, salt |-> salt, iterations |-> iterations, length |-> length]

JsBuffer(bytes) == [t |-> "buffer", v |-> bytes]

(* options.x || d *)
OrDefault(x, d) == IF Falsy(x) THEN d ELSE x.v

(* drawn stands for the bytes crypto.randomBytes(32) returns *)
deriveKey(password, options, drawn) ==
  IF OrDefault(options.iterations, DefaultIterations) < 1
     \/ OrDefault(options.keyLength, DefaultKeyLength) < 0
    THEN Throw("KeyDerivationError")
    ELSE Ok(JsBuffer(
           OrDefault(options.salt, BytesOf("salt", drawn, SaltLength))
             \o BytesOf("key",
                        Pbkdf2(password,
                               OrDefault(options.salt, BytesOf("salt", drawn, SaltLength)),
                               OrDefault(options.iterations, DefaultIterations),
                               OrDefault(options.keyLength, DefaultKeyLength)),
                        OrDefault(options.keyLength, DefaultKeyLength))))

extractSalt(derivedKey) == JsBuffer(subarray(derivedKey.v, 0, SaltLength))

extractKey(derivedKey) == JsBuffer(subarray(derivedKey.v, SaltLength, Len(derivedKey.v)))

Passwords == {<<"p">>, <<"q">>}
SaltInputs ==
  {JsUndefined, JsBuffer(<<>>), JsBuffer(BytesOf("salt", 7, SaltLength \div 2)),
   JsBuffer(BytesOf("salt", 8, SaltLength))}
IterationInputs == {JsUndefined, JsNumber(0), JsNumber(0 - 1), JsNumber(1), JsNumber(2)}
KeyLengthInputs == {JsUndefined, JsNumber(DefaultKeyLength \div 2)}

CryptoReady == phase \in {"builder", "crypto"} /\ config = EmptyConfig /\ ops < MaxCipherOps

CryptoReturned(op, password, arg, res, used) ==
  /\ phase' = "crypto"
  /\ lastOp' = Call(op, password, JsUndefined, arg, Outcome(res, backend, used, <<>>))
  /\ ops' = ops + 1
  /\ UNCHANGED <<config, masterKey, backend, saved, savedUnder, inFlight, previous>>

(* the salt a deriveKey call uses: the one given, else the bytes drawn *)
SaltUsed(options, drawn) ==
  <<[fn |-> "pbkdf2Sync",
     salt |-> OrDefault(options.salt, BytesOf("salt", drawn, SaltLength))]>>

DeriveKey(password, options, drawn) ==
  /\ CryptoReady
  /\ drawn \in (IF Falsy(options.salt) THEN 1..2 ELSE {0})
  /\ CryptoReturned("deriveKey", JsString(password), options,
                    deriveKey(password, options, drawn), SaltUsed(options, drawn))

IsDerived == phase = "crypto" /\ lastOp.op = "deriveKey" /\ lastOp.res.st = "ok"

ExtractSalt ==
  /\ CryptoReady
  /\ IsDerived
  /\ CryptoReturned("extractSalt", lastOp.key, lastOp.res.v, Ok(extractSalt(lastOp.res.v)), <<>>)

ExtractKey ==
  /\ CryptoReady
  /\ IsDerived
  /\ CryptoReturned("extractKey", lastOp.key, lastOp.res.v, Ok(extractKey(lastOp.res.v)), <<>>)

NextCrypto ==
  \/ \E password \in Passwords, salt \in SaltInputs, iterations \in IterationInputs,
        length \in KeyLengthInputs, drawn \in 0..2 :
       DeriveKey(password, [salt |-> salt, iterations |-> iterations, keyLength |-> length],
                 drawn)
  \/ ExtractSalt
  \/ ExtractKey

SpecCrypto == Init /\ [][NextCrypto]_vars

(* ================================================================== *)
(* Properties                                                          *)
(* ================================================================== *)

(* ^[a-f0-9]{64}$ *)
MatchesKeyPattern(s) ==
  /\ Len(s) = MasterKeyHexLength
  /\ \A i \in 1..Len(s) : s[i] \in LowerHexChars \cup DigitChars

(* a valid key name: a non-empty string of at most 255 characters *)
ValidKeyName(key) == key.t = "string" /\ Len(key.v) >= 1 /\ Len(key.v) <= MaxKeyNameLength

(* a valid credentials map: an object, not null and not an array *)
ValidCredentialsMap(c) == c.t = "object"

(* the backend holds an entry for the key: exists(key) *)
HasEntry(b, key) == BackendExists(b, key.v).res.v.v

IsLoad == lastOp.op = "load"

(* C1: after save(k, C) under a valid master key, load(k) returns C as long as  *)
(* no later save, update or delete of k and no setMasterKey happened, whatever  *)
(* was done to other keys in between.                                           *)
C1_RoundTrip ==
  (/\ IsLoad
   /\ ValidKeyName(lastOp.key)
   /\ lastOp.key.v \in DOMAIN saved
   /\ MatchesKeyPattern(masterKey))
  => lastOp.res = Ok(saved[lastOp.key.v])

C3_KeyFormatEnforced ==
  (/\ lastOp.op \in {"new", "build", "setMasterKey"}
   /\ lastOp.arg.t = "string"
   /\ ~MatchesKeyPattern(lastOp.arg.v))
  => lastOp.res.st = "ValidationError"

(* C4: every key string handed to the encryption strategy's encrypt or decrypt  *)
(* matches ^[a-f0-9]{64}$.                                                      *)
C4_CipherKeysValid ==
  \A i \in DOMAIN lastOp.cipher : MatchesKeyPattern(lastOp.cipher[i].key)

(* C5: save with an invalid key name or invalid credentials fails with          *)
(* ValidationError, calls neither the encryption strategy nor the backend, and  *)
(* leaves the backend as it was.                                                *)
C5_ValidationFirst ==
  [][(lastOp'.op = "save"
      /\ (~ValidKeyName(lastOp'.key) \/ ~ValidCredentialsMap(lastOp'.arg)))
     => (/\ lastOp'.res = Throw("ValidationError")
         /\ lastOp'.cipher = <<>>
         /\ lastOp'.calls = <<>>
         /\ backend' = backend)]_vars

C5_Witness ==
  /\ lastOp.op = "save"
  /\ ValidKeyName(lastOp.key) /\ ~ValidCredentialsMap(lastOp.arg)
  /\ lastOp.res.st = "ValidationError"
  /\ backend.store # EmptyMap

(* M is the shallow merge of P over E: every top-level field of P replaces *)
(* E's field of that name whole, every other field of E is kept            *)
IsShallowMerge(M, E, P) ==
  /\ M.t = "object"
  /\ DOMAIN M.v = DOMAIN E.v \cup DOMAIN P.v
  /\ \A f \in DOMAIN P.v : M.v[f] = P.v[f]
  /\ \A f \in DOMAIN E.v \ DOMAIN P.v : M.v[f] = E.v[f]

(* C6: update(k, P) on an existing entry E returns the shallow merge M of P     *)
(* over E, and a following load(k) returns M.                                   *)
C6_UpdateMerges ==
  [][(lastOp'.op = "update" /\ Load(masterKey, backend, lastOp'.key).res.st = "ok")
     => (/\ lastOp'.res.st = "ok"
         /\ IsShallowMerge(lastOp'.res.v, Load(masterKey, backend, lastOp'.key).res.v,
                           lastOp'.arg)
         /\ Load(masterKey', backend', lastOp'.key).res = lastOp'.res)]_vars

(* an update of CredsB: the nested member h of n is gone, u is kept *)
C6_Witness ==
  /\ lastOp.op = "update" /\ lastOp.res.st = "ok"
  /\ lastOp.res.v.v.u = CredsB.v.u
  /\ lastOp.res.v.v.n = lastOp.arg.v.n
  /\ lastOp.arg.v.n # CredsB.v.n
  /\ Load(masterKey, backend, lastOp.key).res = lastOp.res

(* C7: update(k, P) on a key with no stored entry fails, exists(k) is still     *)
(* false afterwards and the entries of the backend are unchanged.               *)
C7_UpdateAbsentFails ==
  [][(lastOp'.op = "update" /\ ValidKeyName(lastOp'.key) /\ ~HasEntry(backend, lastOp'.key))
     => (/\ lastOp'.res.st \in CredentialsErrorClasses
         /\ ~HasEntry(backend', lastOp'.key)
         /\ Exists(backend', lastOp'.key).res = Ok(JsBoolean(FALSE))
         /\ backend'.store = backend.store)]_vars

C7_Witness ==
  /\ lastOp.op = "update" /\ ValidKeyName(lastOp.key)
  /\ lastOp.res.st = "CredentialsError"
  /\ ~HasEntry(backend, lastOp.key)
  /\ backend.store # EmptyMap

(* C8: on both backends delete(k) of a key with no stored entry returns         *)
(* normally and leaves the store unchanged; after delete(k) of an existing      *)
(* entry the entry is gone and a second delete(k) returns normally and changes  *)
(* nothing.                                                                     *)
C8_IdempotentDelete ==
  [][(lastOp'.op = "delete" /\ ValidKeyName(lastOp'.key))
     => (/\ lastOp'.res = Ok(JsUndefined)
         /\ ~HasEntry(backend', lastOp'.key)
         /\ ~HasEntry(backend, lastOp'.key) => backend' = backend
         /\ Delete(backend', lastOp'.key).res = Ok(JsUndefined)
         /\ Delete(backend', lastOp'.key).b = backend')]_vars

(* save(x) then delete(y) of a key y the backend holds nothing for: x stays *)
C8_Witness ==
  /\ lastOp.op = "delete" /\ ValidKeyName(lastOp.key)
  /\ lastOp.res.st = "ok"
  /\ ops = 2
  /\ backend.store # EmptyMap
  /\ ~HasEntry(backend, lastOp.key)

(* C9: setMasterKey changes only the key held in memory and leaves the stored   *)
(* blobs as they are; an entry written under a master key other than the        *)
(* current one fails to load until it is written again.                         *)
C9_OldEntriesUnreadable ==
  [][/\ lastOp'.op = "setMasterKey" => backend' = backend
     /\ (/\ lastOp'.op = "load"
         /\ ValidKeyName(lastOp'.key)
         /\ Slot(lastOp'.key) \in DOMAIN savedUnder
         /\ savedUnder[Slot(lastOp'.key)] # masterKey)
        => lastOp'.res.st \in CredentialsErrorClasses]_vars

(* the entries (n) and (n, s) other than the one a scoped call named *)
OtherScopes(scope) ==
  IF Falsy(scope) THEN {s \in ScopeInputs : ~Falsy(s)} ELSE {JsUndefined}

(* C10: saveScoped(n, C, s) followed by loadScoped(n, s) returns C; for a       *)
(* non-empty s, saving or deleting one of the entries (n) and (n, s) never      *)
(* changes what loading the other returns.                                      *)
C10_ScopedEntriesDistinct ==
  [][/\ (/\ lastOp'.op = "saveScoped"
         /\ ValidKeyName(generateScopedKey(lastOp'.key, lastOp'.scope))
         /\ ValidCredentialsMap(lastOp'.arg)
         /\ MatchesKeyPattern(masterKey))
        => LoadScoped(masterKey, backend', lastOp'.key, lastOp'.scope).res = Ok(lastOp'.arg)
     /\ (lastOp'.op \in {"saveScoped", "deleteScoped"} /\ MatchesKeyPattern(masterKey))
        => \A o \in OtherScopes(lastOp'.scope) :
             LoadScoped(masterKey, backend', lastOp'.key, o).res
               = LoadScoped(masterKey, backend, lastOp'.key, o).res]_vars

(* the key a scoped call stands for: n.s for a non-empty scope s, else n *)
ScopedKeyOf(n, s) ==
  IF s.t = "string" /\ Len(s.v) > 0 THEN JsString(n.v \o <<".">> \o s.v) ELSE n

(* the step just taken had the result and the effects of the unscoped call out *)
SameAs(out) == out = Outcome(lastOp'.res, backend', lastOp'.cipher, lastOp'.calls)

(* C11: loadScoped, saveScoped, deleteScoped and existsScoped of (n, s) have    *)
(* the result and the effect of load, save, delete and exists on the key n.s    *)
(* for a non-empty s and on n otherwise; an entry written by save(n.s, C) is    *)
(* the one loadScoped(n, s) reads.                                              *)
C11_ScopedIsRenaming ==
  [][/\ lastOp'.op = "loadScoped"
        => SameAs(Load(masterKey, backend, ScopedKeyOf(lastOp'.key, lastOp'.scope)))
     /\ lastOp'.op = "saveScoped"
        => \E iv \in IVs \cup {0}, now \in Timestamps \cup {0} :
             SameAs(Save(masterKey, backend, ScopedKeyOf(lastOp'.key, lastOp'.scope),
                         lastOp'.arg, iv, now))
     /\ lastOp'.op = "deleteScoped"
        => SameAs(Delete(backend, ScopedKeyOf(lastOp'.key, lastOp'.scope)))
     /\ lastOp'.op = "existsScoped"
        => SameAs(Exists(backend, ScopedKeyOf(lastOp'.key, lastOp'.scope)))
     /\ (lastOp'.op = "save" /\ lastOp'.res.st = "ok")
        => \A n \in NameInputs, s \in ScopeInputs :
             ScopedKeyOf(n, s) = lastOp'.key
               => LoadScoped(masterKey, backend', n, s).res = Ok(lastOp'.arg)]_vars

(* after save(n.s, C), loadScoped(n, s) returns C *)
C11_Witness ==
  /\ lastOp.op = "save" /\ lastOp.res.st = "ok"
  /\ lastOp.key = ScopedKeyOf(NameAB, JsString(<<"p">>))
  /\ LoadScoped(masterKey, backend, NameAB, JsString(<<"p">>)).res = Ok(lastOp.arg)
  /\ LoadScoped(masterKey, backend, NameAB, JsUndefined).res.st = "CredentialsError"

(* a file directly inside the base directory *)
DirectChild(path) ==
  /\ Len(path) = Len(basePath) + 1
  /\ SubSeq(path, 1, Len(basePath)) = basePath

(* C12: whatever the key, every file FileStorage.get, set, delete or exists     *)
(* reads, writes or removes is a direct child of the base directory, and no     *)
(* file exists outside it.                                                      *)
C12_PathContainment ==
  (phase = "storage" /\ backend.kind = "file")
  => /\ \A path \in DOMAIN backend.store : DirectChild(path)
     /\ \A i \in DOMAIN lastOp.calls :
          lastOp.calls[i].fn # "mkdir" => DirectChild(lastOp.calls[i].path)

(* set("../../etc/passwd", v) has written its file inside the base directory *)
C12_Witness ==
  /\ phase = "storage" /\ backend.kind = "file"
  /\ lastOp.op = "set" /\ lastOp.key = KeyTraversal /\ lastOp.res.st = "ok"
  /\ Len(lastOp.calls) = 2 /\ lastOp.calls[2].fn = "writeFile"
  /\ lastOp.calls[2].path \in DOMAIN backend.store

(* C13: for distinct valid keys k1 and k2, on either backend, save(k1, C) and    *)
(* delete(k1) leave the results of load(k2) and exists(k2) as they were.        *)
C13_KeysIndependent ==
  [][(/\ lastOp'.op \in {"save", "delete"}
      /\ ValidKeyName(lastOp'.key)
      /\ MatchesKeyPattern(masterKey))
     => \A k2 \in {k \in KeyInputs : ValidKeyName(k)} \ {lastOp'.key} :
          /\ Load(masterKey, backend', k2).res = Load(masterKey, backend, k2).res
          /\ Exists(backend', k2).res = Exists(backend, k2).res]_vars

(* the last call was made on a StorageBackend directly *)
StorageStep(opNames) == phase = "storage" /\ lastOp'.op \in opNames

(* C14: on both backends, after set(k, v) get(k) returns v and exists(k) is     *)
(* true, and so it stays until a set, delete or clear that affects the entry    *)
(* of k; a later set(k, v2) makes get(k) return v2.                             *)
C14_StorageContract ==
  [][/\ StorageStep({"set"})
        => /\ lastOp'.res = Ok(JsUndefined)
           /\ BackendGet(backend', lastOp'.key).res = Ok(lastOp'.arg)
           /\ BackendExists(backend', lastOp'.key).res = Ok(JsBoolean(TRUE))
     /\ StorageStep({"get", "exists", "set", "delete"})
        => \A k \in RawKeyInputs :
             (lastOp'.op \in {"set", "delete"} => Slot(JsString(k)) # Slot(JsString(lastOp'.key)))
             => /\ BackendGet(backend', k).res = BackendGet(backend, k).res
                /\ BackendExists(backend', k).res = BackendExists(backend, k).res]_vars

(* a file is not valid JSON *)
Unparsable(b, key) ==
  getFilePath(key) \in DOMAIN b.store /\ TryJSONParse(b.store[getFilePath(key)]).st # "ok"

(* C15: FileStorage.get returns null without raising when the file of the key   *)
(* does not exist, and raises StorageError when the file exists and does not    *)
(* hold valid JSON.                                                             *)
C15_AbsentIsNotCorrupt ==
  [][(StorageStep({"get"}) /\ backend.kind = "file")
     => /\ getFilePath(lastOp'.key) \notin DOMAIN backend.store => lastOp'.res = Ok(JsNull)
        /\ Unparsable(backend, lastOp'.key) => lastOp'.res = Throw("StorageError")]_vars

(* a get of a key whose file was overwritten with text that is no JSON *)
C15_Witness ==
  /\ phase = "storage" /\ backend.kind = "file"
  /\ lastOp.op = "get"
  /\ Unparsable(backend, lastOp.key)
  /\ lastOp.res = Throw("StorageError")

(* every call started has returned *)
Quiet == \A id \in DOMAIN inFlight : inFlight[id].pc = "done"

CallsOf(op) == {id \in DOMAIN inFlight : inFlight[id].op = op}

(* C16: when two saves of one key have run together and returned, both have     *)
(* returned normally and the stored entry loads as the credentials of one of    *)
(* them.                                                                        *)
C16_LastWriteWins ==
  (/\ phase = "ready" /\ Quiet
   /\ Len(inFlight) = 2 /\ CallsOf("save") = {1, 2}
   /\ inFlight[1].key = inFlight[2].key)
  => /\ \A id \in {1, 2} : inFlight[id].res = Ok(JsUndefined)
     /\ Load(masterKey, backend, inFlight[1].key).res
          \in {Ok(inFlight[1].arg), Ok(inFlight[2].arg)}

(* C17: a load or exists that ran while one save of its key was in flight       *)
(* returned the entry before the write, the entry after it, or not found;       *)
(* never a failure to read a half written record.                               *)
C17_NoPartialState ==
  (phase = "ready" /\ Cardinality(CallsOf("save")) <= 1)
  => /\ \A id \in CallsOf("load") :
          inFlight[id].pc = "done"
          => \/ inFlight[id].res = Throw("CredentialsError")
             \/ \E w \in CallsOf("save") : inFlight[id].res = Ok(inFlight[w].arg)
     /\ \A id \in CallsOf("exists") :
          inFlight[id].pc = "done" => inFlight[id].res.st = "ok"

(* a decrypt call that follows the encrypt call whose blob it is given *)
DecryptsLast == IsEncrypted /\ lastOp'.op = "decrypt"

ChangedAt(at) ==
  /\ at < Len(lastOp'.arg)
  /\ lastOp'.arg[at + 1].xor # 0

(* C18: decrypt, with the key of encrypt, of a blob with a byte of its tag      *)
(* region (bytes 16..31) or of its ciphertext region (bytes 32 onward) changed  *)
(* fails with EncryptionError, and decrypt of a blob changed anywhere returns   *)
(* no plaintext other than the one encrypted.                                   *)
C18_TamperDetected ==
  [][(DecryptsLast /\ lastOp'.key = lastOp.key)
     => /\ (\E at \in BlobOffsets : at >= ivLength /\ ChangedAt(at))
             => lastOp'.res = Throw("EncryptionError")
        /\ (\E at \in BlobOffsets : ChangedAt(at))
             => (lastOp'.res.st = "ok" => lastOp'.res.v = lastOp.arg)]_vars

C18_Witness ==
  /\ phase = "cipher" /\ lastOp.op = "decrypt"
  /\ lastOp.key = JsString(Key1)
  /\ Len(lastOp.arg) > ivLength + authTagLength
  /\ lastOp.arg[Len(lastOp.arg)].xor # 0
  /\ lastOp.res = Throw("EncryptionError")

(* C19: decrypt of an unchanged blob with a key string other than the one given *)
(* to encrypt fails.                                                            *)
C19_WrongKeyRejected ==
  [][(DecryptsLast /\ lastOp'.arg = BufferOf(lastOp.res.v) /\ lastOp'.key # lastOp.key)
     => lastOp'.res.st # "ok"]_vars

(* two encrypt calls of the same plaintext with the same key, no encrypt call    *)
(* between them                                                                 *)
EncryptedTwice ==
  /\ phase = "cipher"
  /\ previous.op = "encrypt" /\ previous.res.st = "ok"
  /\ lastOp.op = "encrypt" /\ lastOp.res.st = "ok"
  /\ lastOp.arg = previous.arg
  /\ lastOp.key = previous.key

C21_KeyLengthChecked ==
  (/\ phase = "cipher"
   /\ lastOp.op \in {"encrypt", "decrypt"}
   /\ Len(BufferFromHex(lastOp.key.v)) # keyLength)
  => /\ lastOp.res = Throw("EncryptionError")
     /\ lastOp.cipher = <<>>

C21_Witness ==
  /\ phase = "cipher"
  /\ lastOp.op = "encrypt"
  /\ lastOp.key = JsString(KeyWord)
  /\ lastOp.res = Throw("EncryptionError")
  /\ previous.op = "encrypt" /\ previous.res.st = "ok"

(* C22: decrypt of a blob that decodes to fewer than 32 bytes fails with         *)
(* EncryptionError.                                                             *)
C22_ShortBlobsRejected ==
  (/\ phase = "cipher"
   /\ lastOp.op = "decrypt"
   /\ Len(lastOp.arg) < ivLength + authTagLength)
  => lastOp.res = Throw("EncryptionError")

ManagerOps == {"load", "save", "delete", "exists", "update"}

(* what load finds for the key: the backend's answer, decrypted and parsed *)
Stored(b, key) == AESDecrypt(BackendGet(b, key.v).res.v, masterKey)

Readable(b, key) ==
  /\ BackendGet(b, key.v).res.st = "ok"
  /\ ~Falsy(BackendGet(b, key.v).res.v)
  /\ Stored(b, key).st = "ok"
  /\ TryJSONParse(Stored(b, key).v).st = "ok"

C24_BadIterationsRejected ==
  (/\ phase = "crypto"
   /\ lastOp.op = "deriveKey"
   /\ lastOp.arg.iterations.t = "number")
  => /\ lastOp.arg.iterations.v <= 0 => lastOp.res = Throw("KeyDerivationError")
     /\ lastOp.res.st = "ok"
        => lastOp.res.v.v[Len(lastOp.res.v.v)].of.iterations = lastOp.arg.iterations.v

(* C25: for a deriveKey call with the default key length, the result is 64      *)
(* bytes, extractSalt of it is the salt the derivation used and extractKey of   *)
(* it is the 32 bytes of the derived key.                                       *)
C25_SaltThenKey ==
  [][(/\ IsDerived
      /\ lastOp.arg.keyLength = JsUndefined)
     => /\ Len(lastOp.res.v.v) = SaltLength + DefaultKeyLength
        /\ lastOp'.op = "extractSalt"
           => lastOp'.res.v.v = lastOp.cipher[1].salt
        /\ lastOp'.op = "extractKey"
           => /\ Len(lastOp'.res.v.v) = DefaultKeyLength
              /\ lastOp'.res.v.v
                   = BytesOf("key", lastOp'.res.v.v[1].of, DefaultKeyLength)
              /\ lastOp'.res.v.v[1].of.salt = lastOp.cipher[1].salt
              /\ lastOp'.res.v.v[1].of.password = lastOp.key.v]_vars

(* C26: getAllKeys of a backend returns exactly the keys that were set and not  *)
(* since deleted or cleared, each as the string that was passed to set.         *)
C26_KeysAsSet ==
  (/\ phase = "storage"
   /\ lastOp.op = "getAllKeys")
  => lastOp.res = Ok([t |-> "array", v |-> DOMAIN saved])

(* C27: the manager that build() yields has, for every field set with a with*   *)
(* call, exactly the value set, and for every field not set its default: a      *)
(* generated master key of 64 lowercase hexadecimal characters, in-memory       *)
(* storage, AES encryption and the environment "development".                   *)
C27_SetKeptUnsetDefault ==
  [][(/\ phase = "builder"
      /\ lastOp'.op = "build")
     => /\ IF config.masterKey = JsUndefined
             THEN /\ Len(masterKey') = MasterKeyHexLength
                  /\ \A i \in 1..Len(masterKey') :
                       masterKey'[i] \in LowerHexChars \cup DigitChars
             ELSE masterKey' = config.masterKey.v
        /\ backend' = CASE config.storageBackend = "file" -> NewFileStorage
                         [] OTHER -> NewInMemoryStorage
        /\ ManagerEncryption(config') = "aes"
        /\ getEnvironment' = IF config.environment = JsUndefined
                               THEN Development ELSE config.environment]_vars

(* C28: update is a load followed by a save with other calls in between: what   *)
(* an update stores and returns is its updates merged into the entry as its     *)
(* load returned it, whatever is stored by then, and once merged the update     *)
(* returns that value normally, whatever it overwrites. So two updates of one   *)
(* key that set different fields can both return normally and leave an entry    *)
(* with the change of only one of them.                                         *)
C28_UpdateLoadsThenSaves ==
  [][\A id \in CallsOf("update") :
       /\ (inFlight[id].pc = "merge" /\ inFlight'[id].pc \notin {"merge", "done"})
          => inFlight'[id].res = Ok(SpreadMerge(inFlight[id].blob, inFlight[id].arg))
       /\ (inFlight[id].pc \in {"set", "write"} /\ inFlight'[id].pc = "done")
          => /\ inFlight'[id].res = inFlight[id].res
             /\ inFlight[id].res.st = "ok"
             /\ backend.kind = "memory"
                => Load(masterKey, backend', inFlight[id].key).res = inFlight'[id].res]_vars

C28_Witness ==
  /\ phase = "ready" /\ Quiet
  /\ \E i, j \in CallsOf("update") :
       /\ inFlight[i].key = inFlight[j].key
       /\ inFlight[i].arg = JsObject([a |-> JsNumber(1)])
       /\ inFlight[j].arg = JsObject([b |-> JsNumber(2)])
       /\ inFlight[i].res.st = "ok" /\ inFlight[j].res.st = "ok"
       /\ LET stored == Load(masterKey, backend, inFlight[i].key).res
          IN /\ stored.st = "ok"
             /\ stored \in {inFlight[i].res, inFlight[j].res}
             /\ ("a" \in DOMAIN stored.v.v) # ("b" \in DOMAIN stored.v.v)

(* every file of the backend holds what FileStorage.set wrote *)
OnlySetWrote ==
  backend.kind = "file" => \A f \in DOMAIN backend.store : backend.store[f] \notin ForeignContents

(* C29: after set, delete and clear calls on a backend, exists(k) returns true  *)
(* exactly when get(k) returns a value that is not null.                        *)
C29_ExistsIffGet ==
  (phase = "storage" /\ OnlySetWrote)
  => \A key \in RawKeyInputs :
       (BackendExists(backend, key).res = Ok(JsBoolean(TRUE)))
       <=> (/\ BackendGet(backend, key).res.st = "ok"
            /\ BackendGet(backend, key).res.v # JsNull)

(* C30: when setMasterKey raises ValidationError, the master key and the        *)
(* backend are as before the call, and every key that loaded before the call    *)
(* loads the same credentials after it.                                         *)
C30_RejectedKeyChangesNothing ==
  [][(/\ phase = "ready"
      /\ lastOp'.op = "setMasterKey"
      /\ lastOp'.res = Throw("ValidationError"))
     => /\ masterKey' = masterKey
        /\ backend' = backend
        /\ \A key \in KeyInputs :
             Load(masterKey, backend, key).res.st = "ok"
             => Load(masterKey', backend', key).res = Load(masterKey, backend, key).res]_vars

C30_Witness ==
  /\ phase = "ready"
  /\ lastOp.op = "setMasterKey"
  /\ lastOp.res = Throw("ValidationError")
  /\ \E key \in KeyInputs : Load(masterKey, backend, key).res.st = "ok"

====
